---- MODULE Spec2Model ----
(***************************************************************************)
(* A model of src/monitoring.py: the Timer and ErrorCatcher decorators,    *)
(* the process-wide logging registry they configure, the JSON and plain    *)
(* formatters, the rotating log files and the CSV metrics file.            *)
(*                                                                         *)
(* Text is a sequence of tokens: a token is one character of data that     *)
(* comes from an argument or an exception message, or one fixed piece of a *)
(* format string.  Function names and clock readings are opaque tokens     *)
(* that hold no digit.                                                     *)
(***************************************************************************)
EXTENDS Integers, Sequences, FiniteSets, TLC

VARIABLES
    timers,        \* the Timer instances constructed so far, each its configuration
    catchers,      \* the ErrorCatcher instances constructed so far
    rootHandlers,  \* logging.root.handlers
    rootLevel,     \* logging.root.level
    ecHandlers,    \* logging.getLogger("error_catcher").handlers
    console,       \* what was written to the console (stdout and stderr)
    fs,            \* the log files: base path -> suffix (0 = the file, i = backup .i) -> file
    rolls,         \* base path -> number of rollovers done on it
    csv,           \* logs/timing_results.csv
    nextUuid,      \* the next uuid4 value
    history,       \* what every finished wrapper call gave back to its caller
    thr            \* the threads of the concurrent run, each inside wrapper/_save_to_csv

vars == <<timers, catchers, rootHandlers, rootLevel, ecHandlers, console, fs, rolls,
          csv, nextUuid, history, thr>>

----------------------------------------------------------------------------
(* Bounds of the model *)

\* Timer-wrapped calls of one run of SpecTimer
MaxTimerCalls == 1
\* Timer instances of one run of SpecTimer
MaxTimers == 2
\* constructor calls (Timer or ErrorCatcher) of one run of Spec
MaxInits == 2
\* wrapper calls of one run of Spec
MaxCalls == 1
\* threads of SpecThreads and calls made by each
NumThreads == 2
CallsPerThread == 1
\* records emitted in one run of SpecRotation, and the largest backupCount tried
MaxEmits == 5
MaxBackupCount == 2

----------------------------------------------------------------------------
(* Text, values and exceptions *)

None == <<>>
Some(x) == <<x>>

Digits == {"0", "1", "2", "3", "4", "5", "6", "7", "8", "9"}
DigitOf == <<"0", "1", "2", "3", "4", "5", "6", "7", "8", "9">>

RECURSIVE DecStr(_)
\* str(n) of a natural number
DecStr(n) == IF n < 10 THEN <<DigitOf[n + 1]>>
             ELSE DecStr(n \div 10) \o <<DigitOf[(n % 10) + 1]>>

\* s[:n]
Prefix(s, n) == SubSeq(s, 1, IF n < Len(s) THEN n ELSE Len(s))

\* a Python object passed as an argument or returned by a unit
StrObj(text) == [kind |-> "obj", text |-> text, rows |-> 0]
DataFrame(n) == [kind |-> "df", text |-> <<>>, rows |-> n]
Unprintable == [kind |-> "bad", text |-> <<>>, rows |-> 0]
NoValue == [kind |-> "none", text |-> <<>>, rows |-> 0]

\* an exception object: oid is the object's identity
Exc(oid, base, type, msg) == [oid |-> oid, base |-> base, type |-> type, msg |-> msg]
NoExc == Exc(0, "", "", <<>>)

\* how a unit or a wrapper ends
Return(v) == [kind |-> "return", value |-> v, exc |-> NoExc]
Raise(e) == [kind |-> "raise", value |-> NoValue, exc |-> e]

\* except Exception: catches the exceptions that derive from Exception
IsException(e) == e.base = "Exception"

\* the example sanitizer: every digit becomes '*'
sanitizer(arg_str) == [i \in DOMAIN arg_str |->
                          IF arg_str[i] \in Digits THEN "*" ELSE arg_str[i]]

\* self.sanitize_func(s), for the sanitize_func values of the model
ApplySanitize(f, s) == IF f = "sanitizer" THEN sanitizer(s) ELSE s

safe_serialize(self, obj) ==
    IF obj.kind = "df"
    THEN <<"<DataFrame with ">> \o DecStr(obj.rows) \o <<" rows>">>
    ELSE LET s0 == IF obj.kind = "bad" THEN <<"<unserializable>">> ELSE obj.text
             s1 == IF self.sanitize_func # "None"
                   THEN ApplySanitize(self.sanitize_func, s0) ELSE s0
         IN  IF self.max_arg_length # None /\ Len(s1) > self.max_arg_length[1]
             THEN Prefix(s1, self.max_arg_length[1]) \o <<"...">>
             ELSE s1

\* json.dumps({"args": [...], "kwargs": {...}}): the document, kwargs as <<key, text>> pairs
ArgsRepr(self, args, kwargs) ==
    [args |-> [i \in DOMAIN args |-> safe_serialize(self, args[i])],
     kwargs |-> [i \in DOMAIN kwargs |-> <<kwargs[i][1], safe_serialize(self, kwargs[i][2])>>]]

----------------------------------------------------------------------------
(* Log records and formatters *)

LevelNo(l) == CASE l = "INFO" -> 20 [] l = "WARNING" -> 30 [] l = "ERROR" -> 40 [] OTHER -> 0

\* the LogRecord made by Logger.info / Logger.exception with extra={function_name, uuid}
LogRecord(level, msg, fname, uuid, exc) ==
    [level |-> level, msg |-> msg, function_name |-> fname, uuid |-> uuid, exc_info |-> exc]

\* the JSON document written for a record; exc_info is not part of it
JSONFormatter(record) ==
    [timestamp |-> "asctime",
     level |-> record.level,
     message |-> record.msg,
     function |-> record.function_name,
     uuid |-> record.uuid]

\* logging.Formatter.formatException: the traceback ends with "Type: str(e)"
FormatException(e) == <<"\nTraceback (most recent call last): ", e.type, ": ">> \o e.msg

\* logging.Formatter("%(asctime)s - %(levelname)s - %(message)s").format
PlainFormatter(record) ==
    <<"asctime", " - ", record.level, " - ">> \o record.msg
    \o (IF record.exc_info # NoExc THEN FormatException(record.exc_info) ELSE <<>>)

\* the default formatter of logging.lastResort: "%(message)s"
LastResortFormatter(record) ==
    record.msg \o (IF record.exc_info # NoExc THEN FormatException(record.exc_info) ELSE <<>>)

----------------------------------------------------------------------------
(* Files and the rotating file handler *)

TimingLog == "logs/timing.log"
ErrorLog == "logs/error.log"
CustomLog == "custom_error.log"
LogPaths == {TimingLog, ErrorLog, CustomLog}

\* maxBytes=10*1024*1024, backupCount=5 of the Timer's handler
TimerMaxBytes == 10 * 1024 * 1024
TimerBackupCount == 5
\* max_bytes=10*1024*1024, backup_count=5: the ErrorCatcher's defaults
DefaultMaxBytes == 10 * 1024 * 1024
DefaultBackupCount == 5

\* The files of one base path: a function from the suffixes that exist (0 is the file
\* itself, i its backup ".i") to the lines of the file
NoFiles == <<>>
Exists(dir, i) == i \in DOMAIN dir
Create(dir, i, lines) == [k \in DOMAIN dir \cup {i} |-> IF k = i THEN lines ELSE dir[k]]
Remove(dir, i) == [k \in DOMAIN dir \ {i} |-> dir[k]]
\* os.rename(src, dst), which replaces dst
Rename(dir, i, j) == Create(Remove(dir, i), j, dir[i])

\* open(path, "a"): creates the file when it is missing, keeps it otherwise
OpenAppend(dir) == IF Exists(dir, 0) THEN dir ELSE Create(dir, 0, <<>>)

\* len("%s\n" % self.format(record)), in tokens: the message and the fixed JSON framing
LineBytes(line) == Len(line.message) + 1

RECURSIVE FileBytes(_)
\* stream.seek(0, 2); stream.tell()
FileBytes(lines) == IF lines = <<>> THEN 0
                    ELSE LineBytes(Head(lines)) + FileBytes(Tail(lines))

RotatingFileHandler(path, maxBytes, backupCount) ==
    [kind |-> "file", path |-> path, maxBytes |-> maxBytes, backupCount |-> backupCount]
StreamHandler == [kind |-> "console", path |-> "", maxBytes |-> 0, backupCount |-> 0]

shouldRollover(h, dir, line) ==
    /\ h.maxBytes > 0
    /\ FileBytes(dir[0]) + LineBytes(line) >= h.maxBytes

RECURSIVE ShiftBackups(_, _)
\* for i in range(backupCount - 1, 0, -1): rename base.i to base.(i+1)
ShiftBackups(dir, i) ==
    IF i < 1 THEN dir
    ELSE ShiftBackups(IF Exists(dir, i) THEN Rename(dir, i, i + 1) ELSE dir,
                      i - 1)

doRollover(h, dir) ==
    LET shifted == IF h.backupCount > 0 THEN ShiftBackups(dir, h.backupCount - 1) ELSE dir
        rotated == IF h.backupCount > 0 /\ Exists(shifted, 0)
                   THEN Rename(shifted, 0, 1)
                   ELSE shifted
    IN  OpenAppend(rotated)

\* the sinks a handler writes to
Sinks(c, f, r) == [console |-> c, fs |-> f, rolls |-> r]

\* Handler.handle(record) -> emit(record)
HandlerEmit(h, record, S) ==
    IF h.kind = "console"
    THEN [S EXCEPT !.console = Append(@, [src |-> "StreamHandler", uuid |-> record.uuid,
                                          level |-> record.level,
                                          text |-> PlainFormatter(record)])]
    ELSE LET line == JSONFormatter(record)
             dir == S.fs[h.path]
             roll == shouldRollover(h, dir, line)
             dir1 == IF roll THEN doRollover(h, dir) ELSE dir
             dir2 == LET d == OpenAppend(dir1) IN [d EXCEPT ![0] = Append(@, line)]
         IN  [S EXCEPT !.fs[h.path] = dir2,
                       !.rolls[h.path] = IF roll THEN @ + 1 ELSE @]

RECURSIVE EmitAll(_, _, _)
EmitAll(hs, record, S) ==
    IF hs = <<>> THEN S ELSE EmitAll(Tail(hs), record, HandlerEmit(Head(hs), record, S))

\* Logger.callHandlers: the logger's handlers, then its ancestors' while propagate is set
\* (no code sets propagate to False); logging.lastResort when no handler was found
callHandlers(own, root, record, S) ==
    LET hs == own \o root
    IN  IF hs # <<>> THEN EmitAll(hs, record, S)
        ELSE IF LevelNo(record.level) >= LevelNo("WARNING")
        THEN [S EXCEPT !.console = Append(@, [src |-> "lastResort", uuid |-> record.uuid,
                                              level |-> record.level,
                                              text |-> LastResortFormatter(record)])]
        ELSE S

\* Logger.log of a record on a logger whose level is loggerLevel
LoggerLog(loggerLevel, own, root, record, S) ==
    IF LevelNo(record.level) >= LevelNo(loggerLevel)
    THEN callHandlers(own, root, record, S) ELSE S

----------------------------------------------------------------------------
(* The CSV metrics file *)

ResultsCols == <<"Timestamp", "UUID", "Function Name", "Execution Time (s)", "CPU Time (sec)",
                 "Memory Change (MB)", "Final Memory Usage (MB)", "Arguments", "Log Message">>

\* one csv.writer.writerow: the fields in column order, then the line terminator
RowCells(kind, values) ==
    [i \in 1 .. (Len(values) + 1) |->
        IF i <= Len(values) THEN [kind |-> kind, col |-> i, val |-> values[i]]
        ELSE [kind |-> "eol", col |-> 0, val |-> <<>>]]

HeaderRow == RowCells("header", [i \in DOMAIN ResultsCols |-> <<ResultsCols[i]>>])

MissingResults == [exists |-> FALSE, cells |-> <<>>]

\* the file object of one open(RESULTS_FILE, "a"): what was written and not yet flushed
ClosedHandle == [open |-> FALSE, buf |-> <<>>]

\* an open in mode "w": the file is truncated
OpenResults_truncate(file) == [exists |-> TRUE, cells |-> <<>>]

\* open(self.RESULTS_FILE, mode="a"): O_APPEND|O_CREAT, nothing is remembered of the length
OpenResults(file) == IF file.exists THEN file ELSE [exists |-> TRUE, cells |-> <<>>]

\* file.close(): the buffer goes out in one write(2), which O_APPEND places at the end
FlushAppend(file, buf) == [exists |-> TRUE, cells |-> file.cells \o buf]

\* _save_to_csv when nothing else runs between its open, writerow and close
SaveToCsv(file, row) == FlushAppend(OpenResults(file), row)

----------------------------------------------------------------------------
(* Timer *)

TimerConfig(c, f, t, m, s) ==
    [log_to_console |-> c, log_to_file |-> f, track_resources |-> t,
     max_arg_length |-> m, sanitize_func |-> s]

SanitizeFuncs == {"None", "sanitizer"}

\* _ensure_files_exist, on the CSV file and on timing.log
EnsureResults(file) == IF ~file.exists THEN [exists |-> TRUE, cells |-> HeaderRow] ELSE file
EnsureLog(dir) == IF ~Exists(dir, 0) THEN Create(dir, 0, <<>>) ELSE dir

Printed(text) == [src |-> "print", uuid |-> 0, level |-> "", text |-> text]

EnsurePrints(file, dir) ==
    (IF ~file.exists THEN <<Printed(<<"Created fresh ", "logs/timing_results.csv">>)>> ELSE <<>>)
    \o (IF ~Exists(dir, 0) THEN <<Printed(<<"Created fresh ", TimingLog>>)>> ELSE <<>>)

\* _setup_logging: the handlers left on the root logger.  logging.shutdown() flushes and
\* closes every handler of the process; a closed file handler reopens its file in append
\* mode at its next emit, so no handler stops working
SetupLogging == <<RotatingFileHandler(TimingLog, TimerMaxBytes, TimerBackupCount), StreamHandler>>

\* Timer.__init__
TimerInit(cfg) ==
    /\ timers' = Append(timers, cfg)
    /\ csv' = EnsureResults(csv)
    /\ fs' = [fs EXCEPT ![TimingLog] = EnsureLog(@)]
    /\ console' = console \o EnsurePrints(csv, fs[TimingLog])
    /\ rootHandlers' = SetupLogging
    /\ rootLevel' = "INFO"
    /\ UNCHANGED <<catchers, ecHandlers, rolls, nextUuid, history, thr>>

\* the failure of a psutil call
SamplerError == Exc(2, "Exception", "psutil.Error", <<>>)

\* the sampling steps that can fail: creating the handle (line 99), the reads before the
\* unit (lines 100-101) and the reads after it (lines 111-112)
SamplerFaults == {"none", "handle", "start", "end"}

SuccessMessage(self, fname) ==
    <<"Function ", fname, " executed in ", "elapsed", " sec">>
    \o (IF self.track_resources
        THEN <<", CPU Time: ", "cpu", " sec, Memory Change: ", "mem",
               " MB, Final Memory: ", "final", " MB">>
        ELSE <<>>)

TimerRow(self, fname, uuid, args, kwargs) ==
    RowCells("field",
        <<<<"now">>, <<uuid>>, <<fname>>, <<"elapsed">>,
          IF self.track_resources THEN Some("cpu") ELSE None,
          IF self.track_resources THEN Some("mem") ELSE None,
          IF self.track_resources THEN Some("final") ELSE None,
          <<ArgsRepr(self, args, kwargs)>>,
          SuccessMessage(self, fname)>>)

\* what the caller of a wrapper gets back, and what happened to the unit
CallResult(wrapper, inst, uuid, fname, unit, ran, fault, outcome, saved) ==
    [wrapper |-> wrapper, inst |-> inst, uuid |-> uuid, fname |-> fname, unit |-> unit,
     ran |-> ran, fault |-> fault, outcome |-> outcome, saved |-> saved]

\* a wrapper that builds a new exception from the one it caught
Reraise_translated(e) == Raise(Exc(3, "Exception", "RuntimeError", sanitizer(e.msg)))

\* the bare raise of an except block: the exception being handled, the same object
Reraise(e) == Raise(e)

\* a wrapper that ends without a return statement
WrapperReturn_none(result) == Return(NoValue)

\* return result
WrapperReturn(result) == Return(result)

\* Timer.__call__.wrapper up to the call of _save_to_csv: the outcome, the sinks after the
\* log calls and the row to save (<<>> when no row is saved)
TimerWrapper(self, root, level, fname, args, kwargs, unit, fault, uuid, S) ==
    IF fault = "handle" \/ (fault = "start" /\ self.track_resources)
    THEN [outcome |-> Raise(SamplerError), ran |-> FALSE, S |-> S, row |-> <<>>]
    ELSE IF unit.kind = "raise"
    THEN [outcome |-> IF IsException(unit.exc) THEN Reraise(unit.exc) ELSE Raise(unit.exc),
          ran |-> TRUE, row |-> <<>>,
          S |-> IF IsException(unit.exc)
                THEN LoggerLog(level, <<>>, root,
                               LogRecord("ERROR", <<"Function ", fname, " raised an exception">>,
                                         fname, uuid, unit.exc), S)
                ELSE S]
    ELSE IF fault = "end" /\ self.track_resources
    THEN [outcome |-> Raise(SamplerError), ran |-> TRUE, S |-> S, row |-> <<>>]
    ELSE LET msg == SuccessMessage(self, fname)
             S1 == IF self.log_to_console
                   THEN [S EXCEPT !.console = Append(@, Printed(msg))] ELSE S
             S2 == LoggerLog(level, <<>>, root, LogRecord("INFO", msg, fname, uuid, NoExc), S1)
         IN  [outcome |-> WrapperReturn(unit.value), ran |-> TRUE, S |-> S2,
              row |-> IF self.log_to_file THEN TimerRow(self, fname, uuid, args, kwargs)
                      ELSE <<>>]

\* a call of a function wrapped by the Timer instance i, run to its end
TimerCall(i, fname, args, kwargs, unit, fault) ==
    \E r \in {TimerWrapper(timers[i], rootHandlers, rootLevel, fname, args, kwargs, unit, fault,
                            nextUuid, Sinks(console, fs, rolls))} :
        /\ console' = r.S.console
        /\ fs' = r.S.fs
        /\ rolls' = r.S.rolls
        /\ csv' = IF r.row # <<>> THEN SaveToCsv(csv, r.row) ELSE csv
        /\ nextUuid' = nextUuid + 1
        /\ history' = Append(history, CallResult("Timer", i, nextUuid, fname, unit, r.ran,
                                                 fault, r.outcome, r.row # <<>>))
        /\ UNCHANGED <<timers, catchers, rootHandlers, rootLevel, ecHandlers, thr>>

\* the metrics file is removed from outside the process
RemoveResults ==
    /\ csv.exists
    /\ csv' = MissingResults
    /\ UNCHANGED <<timers, catchers, rootHandlers, rootLevel, ecHandlers, console, fs, rolls,
                   nextUuid, history, thr>>

----------------------------------------------------------------------------
(* ErrorCatcher *)

CatcherConfig(c, f, path, mb, bc, s) ==
    [log_to_console |-> c, log_to_file |-> f, error_log_file |-> path,
     max_bytes |-> mb, backup_count |-> bc, sanitize_func |-> s]

\* error_log_file=None stands for logs/error.log
ErrorLogFile(arg) == IF arg = None THEN ErrorLog ELSE arg[1]

\* a handler that is given one backup more than the instance was configured with
SetupErrorLogging_extra(self) ==
    (IF self.log_to_file
     THEN <<RotatingFileHandler(self.error_log_file, self.max_bytes, self.backup_count + 1)>>
     ELSE <<>>)
    \o (IF self.log_to_console THEN <<StreamHandler>> ELSE <<>>)

\* _setup_error_logging: the handlers left on the logger "error_catcher", which every
\* ErrorCatcher of the process shares
SetupErrorLogging(self) ==
    (IF self.log_to_file
     THEN <<RotatingFileHandler(self.error_log_file, self.max_bytes, self.backup_count)>>
     ELSE <<>>)
    \o (IF self.log_to_console THEN <<StreamHandler>> ELSE <<>>)

\* ErrorCatcher.__init__; RotatingFileHandler(...) opens its file in append mode
CatcherInit(cfg) ==
    /\ catchers' = Append(catchers, cfg)
    /\ ecHandlers' = SetupErrorLogging(cfg)
    /\ fs' = IF cfg.log_to_file
             THEN [fs EXCEPT ![cfg.error_log_file] = OpenAppend(@)]
             ELSE fs
    /\ UNCHANGED <<timers, rootHandlers, rootLevel, console, rolls, csv, nextUuid, history, thr>>

\* ErrorCatcher.__call__.wrapper: self.logger is the shared logger, whose handlers are
\* those of the registry at the time of the call
CatcherWrapper(self, own, root, fname, unit, uuid, S) ==
    IF unit.kind = "return"
    THEN [outcome |-> WrapperReturn(unit.value), S |-> S]
    ELSE IF IsException(unit.exc)
    THEN LET error_msg == IF self.sanitize_func # "None"
                          THEN ApplySanitize(self.sanitize_func, unit.exc.msg)
                          ELSE unit.exc.msg
             record == LogRecord("ERROR",
                                 <<"Function ", fname, " raised an exception: ">> \o error_msg,
                                 fname, uuid, unit.exc)
         IN  [outcome |-> Reraise(unit.exc), S |-> LoggerLog("ERROR", own, root, record, S)]
    ELSE [outcome |-> Raise(unit.exc), S |-> S]

\* a call of a function wrapped by the ErrorCatcher instance j
CatcherCall(j, fname, unit) ==
    \E r \in {CatcherWrapper(catchers[j], ecHandlers, rootHandlers, fname, unit, nextUuid,
                              Sinks(console, fs, rolls))} :
        /\ console' = r.S.console
        /\ fs' = r.S.fs
        /\ rolls' = r.S.rolls
        /\ nextUuid' = nextUuid + 1
        /\ history' = Append(history, CallResult("ErrorCatcher", j, nextUuid, fname, unit, TRUE,
                                                 "none", r.outcome, FALSE))
        /\ UNCHANGED <<timers, catchers, rootHandlers, rootLevel, ecHandlers, csv, thr>>

----------------------------------------------------------------------------
(* Inputs *)

FuncName == "div"

\* the units: what a call of the wrapped function does
Five == StrObj(<<"5">>)
Table == DataFrame(1)
DivisionByZero == Exc(1, "Exception", "ZeroDivisionError", <<"e", "0">>)
Interrupt == Exc(1, "BaseException", "KeyboardInterrupt", <<>>)
Units == {Return(Five), Return(Table), Raise(DivisionByZero), Raise(Interrupt)}
\* the units of SpecTimer, where what is logged of a cancellation is not at stake
TimedUnits == {Return(Five), Return(Table), Raise(DivisionByZero)}

\* the arguments of a call: <<positional, keyword>>, keyword arguments as <<name, value>> pairs
ArgLists == {<<(<<>>), (<<>>)>>,
             <<(<<StrObj(<<"a", "7">>)>>), (<<(<<"k", StrObj(<<"4", "2">>)>>)>>)>>,
             <<(<<DataFrame(3)>>), (<<>>)>>,
             <<(<<Unprintable>>), (<<>>)>>}

\* the value of max_arg_length that truncates an argument of the model
ArgLength == 1

TimerConfigs ==
    {TimerConfig(c, f, t, m, s) :
        c \in BOOLEAN, f \in BOOLEAN, t \in BOOLEAN,
        m \in {None, Some(ArgLength)}, s \in SanitizeFuncs}

DefaultTimerConfig == TimerConfig(TRUE, TRUE, TRUE, None, "None")

NoThreads == <<>>
NoRolls == [p \in LogPaths |-> 0]
NoLogs == [p \in LogPaths |-> NoFiles]

----------------------------------------------------------------------------
(* SpecTimer: one Timer of any configuration, further Timers, calls, and the metrics
   file removed from outside *)

InitTimer ==
    \E cfg \in TimerConfigs :
        /\ timers = <<cfg>>
        /\ catchers = <<>>
        /\ rootHandlers = SetupLogging
        /\ rootLevel = "INFO"
        /\ ecHandlers = <<>>
        /\ console = EnsurePrints(MissingResults, NoFiles)
        /\ fs = [NoLogs EXCEPT ![TimingLog] = EnsureLog(@)]
        /\ rolls = NoRolls
        /\ csv = EnsureResults(MissingResults)
        /\ nextUuid = 1
        /\ history = <<>>
        /\ thr = NoThreads

AnotherTimer ==
    /\ Len(timers) < MaxTimers
    /\ TimerInit(DefaultTimerConfig)

TimedCall ==
    /\ Len(history) < MaxTimerCalls
    /\ \E i \in DOMAIN timers, a \in ArgLists, unit \in TimedUnits, fault \in SamplerFaults :
            TimerCall(i, FuncName, a[1], a[2], unit, fault)

NextTimer == AnotherTimer \/ TimedCall \/ RemoveResults

SpecTimer == InitTimer /\ [][NextTimer]_vars

----------------------------------------------------------------------------
(* Spec: a process that constructs Timers and ErrorCatchers and calls the functions
   they wrap *)

MainTimerConfigs == {DefaultTimerConfig, TimerConfig(FALSE, FALSE, FALSE, None, "sanitizer")}

CatcherConfigs ==
    {CatcherConfig(c, f, ErrorLogFile(ps[1]), DefaultMaxBytes, DefaultBackupCount, ps[2]) :
        c \in BOOLEAN, f \in BOOLEAN,
        ps \in {<<None, "None">>, <<Some(CustomLog), "sanitizer">>}}

Init ==
    /\ timers = <<>>
    /\ catchers = <<>>
    /\ rootHandlers = <<>>
    /\ rootLevel = "WARNING"
    /\ ecHandlers = <<>>
    /\ console = <<>>
    /\ fs = NoLogs
    /\ rolls = NoRolls
    /\ csv = MissingResults
    /\ nextUuid = 1
    /\ history = <<>>
    /\ thr = NoThreads

NewTimer ==
    /\ Len(timers) + Len(catchers) < MaxInits
    /\ \E cfg \in MainTimerConfigs : TimerInit(cfg)

NewCatcher ==
    /\ Len(timers) + Len(catchers) < MaxInits
    /\ \E cfg \in CatcherConfigs : CatcherInit(cfg)

CallTimed ==
    /\ Len(history) < MaxCalls
    /\ \E i \in DOMAIN timers, unit \in Units : TimerCall(i, FuncName, <<>>, <<>>, unit, "none")

CallCaught ==
    /\ Len(history) < MaxCalls
    /\ \E j \in DOMAIN catchers, unit \in Units : CatcherCall(j, FuncName, unit)

Next == NewTimer \/ NewCatcher \/ CallTimed \/ CallCaught

Spec == Init /\ [][Next]_vars

----------------------------------------------------------------------------
(* SpecThreads: NumThreads threads, each calling a function wrapped by one Timer
   CallsPerThread times; every call succeeds.  A step is what one thread does
   between two points where another thread can run: the wrapper up to
   _save_to_csv (the log handlers take their locks), then the open, the
   writerow and the close of _save_to_csv *)

Threads == 1 .. NumThreads

Increment == "increment"

\* the Timers of the threads: the metrics sink on
ThreadsTimerConfigs ==
    {TimerConfig(c, TRUE, t, None, "None") : c \in BOOLEAN, t \in BOOLEAN}

InitThreads ==
    /\ timers \in {<<cfg>> : cfg \in ThreadsTimerConfigs}
    /\ catchers = <<>>
    /\ rootHandlers = SetupLogging
    /\ rootLevel = "INFO"
    /\ ecHandlers = <<>>
    /\ console = EnsurePrints(MissingResults, NoFiles)
    /\ fs = [NoLogs EXCEPT ![TimingLog] = EnsureLog(@)]
    /\ rolls = NoRolls
    /\ csv = EnsureResults(MissingResults)
    /\ nextUuid = 1
    /\ history = <<>>
    /\ thr = [t \in Threads |-> [pc |-> "idle", done |-> 0, file |-> ClosedHandle,
                                 row |-> <<>>, result |-> <<>>]]

\* wrapper, lines 97-144, and the test of line 146
Enter(t) ==
    /\ thr[t].pc = "idle"
    /\ thr[t].done < CallsPerThread
    /\ \E r \in {TimerWrapper(timers[1], rootHandlers, rootLevel, Increment, <<>>, <<>>,
                               Return(Five), "none", nextUuid, Sinks(console, fs, rolls))} :
         \E res \in {CallResult("Timer", 1, nextUuid, Increment, Return(Five), r.ran, "none",
                                 r.outcome, r.row # <<>>)} :
            /\ console' = r.S.console
            /\ fs' = r.S.fs
            /\ rolls' = r.S.rolls
            /\ nextUuid' = nextUuid + 1
            /\ IF r.row # <<>>
               THEN /\ thr' = [thr EXCEPT ![t].pc = "open", ![t].row = r.row,
                                          ![t].result = <<res>>]
                    /\ UNCHANGED history
               ELSE /\ thr' = [thr EXCEPT ![t].done = @ + 1]
                    /\ history' = Append(history, res)
    /\ UNCHANGED <<timers, catchers, rootHandlers, rootLevel, ecHandlers, csv>>

\* with open(self.RESULTS_FILE, mode="a", newline="") as file
Open(t) ==
    /\ thr[t].pc = "open"
    /\ csv' = OpenResults(csv)
    /\ thr' = [thr EXCEPT ![t].pc = "write", ![t].file = [open |-> TRUE, buf |-> <<>>]]
    /\ UNCHANGED <<timers, catchers, rootHandlers, rootLevel, ecHandlers, console, fs, rolls,
                   nextUuid, history>>

\* writer.writerow([...]): the row goes to the file object's buffer
Write(t) ==
    /\ thr[t].pc = "write"
    /\ thr' = [thr EXCEPT ![t].pc = "close", ![t].file.buf = @ \o thr[t].row]
    /\ UNCHANGED <<timers, catchers, rootHandlers, rootLevel, ecHandlers, console, fs, rolls,
                   csv, nextUuid, history>>

\* leaving the with block closes the file, then wrapper returns the result
Close(t) ==
    /\ thr[t].pc = "close"
    /\ csv' = FlushAppend(csv, thr[t].file.buf)
    /\ thr' = [thr EXCEPT ![t].pc = "idle", ![t].done = @ + 1, ![t].file = ClosedHandle,
                          ![t].row = <<>>, ![t].result = <<>>]
    /\ history' = Append(history, thr[t].result[1])
    /\ UNCHANGED <<timers, catchers, rootHandlers, rootLevel, ecHandlers, console, fs, rolls,
                   nextUuid>>

NextThreads == \E t \in Threads : Enter(t) \/ Open(t) \/ Write(t) \/ Close(t)

SpecThreads == InitThreads /\ [][NextThreads]_vars

----------------------------------------------------------------------------
(* SpecRotation: one ErrorCatcher that logs to logs/error.log only, with a small
   max_bytes, and failing calls through it *)

\* the max_bytes values tried: a record of the model takes 4 or 6 units
RotationMaxBytes == {5, 9}

RotationUnits == {Raise(DivisionByZero), Raise(Exc(1, "Exception", "ValueError", <<>>))}

RotationConfigs ==
    {CatcherConfig(FALSE, TRUE, ErrorLog, mb, bc, "None") :
        mb \in RotationMaxBytes, bc \in 0 .. MaxBackupCount}

InitRotation ==
    \E cfg \in RotationConfigs :
        /\ timers = <<>>
        /\ catchers = <<cfg>>
        /\ rootHandlers = <<>>
        /\ rootLevel = "WARNING"
        /\ ecHandlers = SetupErrorLogging(cfg)
        /\ console = <<>>
        /\ fs = [NoLogs EXCEPT ![cfg.error_log_file] = OpenAppend(@)]
        /\ rolls = NoRolls
        /\ csv = MissingResults
        /\ nextUuid = 1
        /\ history = <<>>
        /\ thr = NoThreads

FailingCall ==
    /\ Len(history) < MaxEmits
    /\ \E unit \in RotationUnits : CatcherCall(1, FuncName, unit)

NextRotation == FailingCall

SpecRotation == InitRotation /\ [][NextRotation]_vars

----------------------------------------------------------------------------
(* Reading the sinks *)

Min(a, b) == IF a < b THEN a ELSE b

HasDigit(text) == \E i \in DOMAIN text : text[i] \in Digits

RECURSIVE SplitFrom(_, _, _)
\* the rows of cells[start ..], of which cells[start .. i-1] hold no line terminator
SplitFrom(cells, start, i) ==
    IF i > Len(cells)
    THEN IF start > Len(cells) THEN <<>> ELSE <<SubSeq(cells, start, Len(cells))>>
    ELSE IF cells[i].kind = "eol"
    THEN <<SubSeq(cells, start, i)>> \o SplitFrom(cells, i + 1, i + 1)
    ELSE SplitFrom(cells, start, i + 1)

\* the rows a CSV reader finds in the file: each ends with its line terminator, but for a
\* last one that was cut short
SplitRows(cells) == SplitFrom(cells, 1, 1)

IsHeader(row) == Len(row) = Len(HeaderRow) /\ \A i \in DOMAIN row : row[i] = HeaderRow[i]

\* a complete data row: nine fields in column order and the terminator
IsDataRow(row) ==
    /\ Len(row) = Len(ResultsCols) + 1
    /\ \A i \in 1 .. Len(ResultsCols) : row[i].kind = "field" /\ row[i].col = i
    /\ row[Len(row)].kind = "eol"

\* the UUID column of a data row
RowUuid(row) == row[2].val[1]

\* the places <<suffix, line number>> of the lines of a log file and of its backups
LinePlaces(dir) == UNION {{<<i, k>> : k \in DOMAIN dir[i]} : i \in DOMAIN dir}

\* the error entries of a call in a log file (backups included) and on the console
FileErrors(path, c) ==
    {pl \in LinePlaces(fs[path]) :
        LET line == fs[path][pl[1]][pl[2]]
        IN  line.level = "ERROR" /\ line.uuid = c.uuid /\ line.function = c.fname}
ConsoleErrors(c) ==
    {i \in DOMAIN console :
        /\ console[i].level = "ERROR"
        /\ console[i].uuid = c.uuid
        /\ \E k \in DOMAIN console[i].text : console[i].text[k] = c.fname}

Calls == {history[k] : k \in DOMAIN history}

\* the instance a call went through
Self(c) == IF c.wrapper = "Timer" THEN timers[c.inst] ELSE catchers[c.inst]

\* the unit of the call was invoked and raised
UnitRaised(c) == c.ran /\ c.unit.kind = "raise"

\* a sampling step of the call failed
SamplingFailed(c) ==
    /\ c.wrapper = "Timer"
    /\ \/ c.fault = "handle"
       \/ c.fault \in {"start", "end"} /\ Self(c).track_resources

\* the log file an instance is configured with, and whether it logs there and to the console
LogFileOf(c) == IF c.wrapper = "Timer" THEN TimingLog ELSE Self(c).error_log_file
LogsToFile(c) == c.wrapper = "Timer" \/ Self(c).log_to_file
LogsToConsole(c) == c.wrapper = "Timer" \/ Self(c).log_to_console

----------------------------------------------------------------------------
(* C1 *)

\* C1: a Timer-wrapped call whose unit returns normally (no sampling step of psutil
\* failing, the case of C8) returns to its caller exactly the value the unit returned,
\* whatever the Timer's configuration
C1_ReturnsUnitValue ==
    \A c \in Calls :
        (c.wrapper = "Timer" /\ c.unit.kind = "return" /\ ~SamplingFailed(c))
            => c.ran /\ c.outcome = Return(c.unit.value)

\* a Timer with sanitizer, truncation, resources and both sinks on returned the unit's table
C1_Witness ==
    \E c \in Calls :
        /\ c.wrapper = "Timer" /\ c.unit = Return(Table) /\ c.outcome = Return(Table)
        /\ c.saved
        /\ Self(c) = TimerConfig(TRUE, TRUE, TRUE, Some(ArgLength), "sanitizer")

(* C2 *)

\* C2: when the unit raises, the Timer wrapper and the ErrorCatcher wrapper raise to the
\* caller the very exception object the unit raised, with or without a sanitize_func
C2_SameFailure ==
    \A c \in Calls : UnitRaised(c) => c.outcome.kind = "raise" /\ c.outcome.exc = c.unit.exc

\* an ErrorCatcher with a sanitize_func logged a masked message to its file and raised the
\* unit's exception again
C2_Witness ==
    \E c \in Calls :
        /\ c.wrapper = "ErrorCatcher" /\ Self(c).sanitize_func = "sanitizer"
        /\ c.unit = Raise(DivisionByZero) /\ c.outcome = Raise(DivisionByZero)
        /\ \E pl \in FileErrors(CustomLog, c) :
              fs[CustomLog][pl[1]][pl[2]].message
                  = <<"Function ", c.fname, " raised an exception: ">> \o <<"e", "*">>

(* C3 *)

\* C3: when a wrapped unit raises an exception, each destination the instance is
\* configured with (its log file, the console) holds exactly one error entry with the
\* function name and the call's uuid, and a destination that is switched off holds none
C3_OneEntryPerDestination ==
    \A c \in Calls :
        (UnitRaised(c) /\ IsException(c.unit.exc)) =>
            /\ Cardinality(ConsoleErrors(c)) = (IF LogsToConsole(c) THEN 1 ELSE 0)
            /\ \A p \in LogPaths :
                  Cardinality(FileErrors(p, c)) = (IF LogsToFile(c) /\ p = LogFileOf(c) THEN 1 ELSE 0)

(* C4 *)

\* C4: with NumThreads threads each making CallsPerThread successful calls, the metrics file
\* holds the header and, for every call that has left _save_to_csv, exactly one row, which
\* is that call's row whole; when all threads are done it holds NumThreads * CallsPerThread
\* rows
C4_RowsPerCall ==
    \A rows \in {SplitRows(csv.cells)} :
        /\ Len(rows) = 1 + Cardinality({k \in DOMAIN history : history[k].saved})
        /\ IsHeader(rows[1])
        /\ \A k \in 2 .. Len(rows) :
              /\ IsDataRow(rows[k])
              /\ \E i \in DOMAIN history :
                    /\ history[i].saved
                    /\ history[i].uuid = RowUuid(rows[k])
                    /\ rows[k] = TimerRow(timers[history[i].inst], history[i].fname,
                                          history[i].uuid, <<>>, <<>>)
              /\ \A l \in 2 .. (k - 1) : RowUuid(rows[k]) # RowUuid(rows[l])
        /\ (\A t \in DOMAIN thr : thr[t].done = CallsPerThread)
              => Len(rows) = 1 + NumThreads * CallsPerThread

\* all threads are done and the rows are not in the order the calls started: the calls
\* overlapped inside _save_to_csv
C4_Witness ==
    LET rows == SplitRows(csv.cells)
    IN  /\ thr # NoThreads
        /\ \A t \in DOMAIN thr : thr[t].done = CallsPerThread
        /\ Len(rows) = 1 + NumThreads * CallsPerThread
        /\ RowUuid(rows[2]) > RowUuid(rows[3])

(* C5 *)

\* C5: the metrics file is the header row followed by one complete row per successful
\* call that saved its metrics
C5_HeaderThenRows ==
    csv.exists =>
        LET rows == SplitRows(csv.cells)
        IN  /\ Len(rows) >= 1
            /\ IsHeader(rows[1])
            /\ \A k \in 2 .. Len(rows) :
                  /\ IsDataRow(rows[k])
                  /\ \E c \in Calls : c.saved /\ RowUuid(rows[k]) = c.uuid

(* C6 *)

\* the texts a call left in the sinks: console lines, log file messages, CSV fields
ConsoleTexts(c) == {console[i].text : i \in {i \in DOMAIN console : console[i].uuid = c.uuid}}
FileTexts(c) ==
    UNION {{fs[p][pl[1]][pl[2]].message :
                pl \in {q \in LinePlaces(fs[p]) : fs[p][q[1]][q[2]].uuid = c.uuid}} :
           p \in LogPaths}
CsvTexts(c) ==
    LET rows == SplitRows(csv.cells)
        mine == {k \in DOMAIN rows : IsDataRow(rows[k]) /\ RowUuid(rows[k]) = c.uuid}
    IN  UNION {{rows[k][9].val} \cup
               {rows[k][8].val[1].args[i] : i \in DOMAIN rows[k][8].val[1].args} \cup
               {rows[k][8].val[1].kwargs[i][2] : i \in DOMAIN rows[k][8].val[1].kwargs} :
               k \in mine}

\* C6: a call through an instance with a sanitize_func leaves no digit in any sink
C6_NoDigitInSinks ==
    \A c \in Calls :
        Self(c).sanitize_func = "sanitizer" =>
            \A text \in ConsoleTexts(c) \cup FileTexts(c) \cup CsvTexts(c) : ~HasDigit(text)

(* C7 *)

\* the backup files of a log file that exist
Backups(dir) == DOMAIN dir \ {0}

\* after K rollovers of a handler with backupCount B, the backups .1 .. .min(K, B) exist
\* and no other
BackupsBounded ==
    \A j \in DOMAIN catchers :
        LET self == catchers[j]
        IN  self.log_to_file =>
                Backups(fs[self.error_log_file])
                    = 1 .. Min(rolls[self.error_log_file], self.backup_count)

\* a record is written after exactly one rollover when the file's size with the record
\* would reach max_bytes, and after none otherwise
OneRolloverPerOverflow ==
    \A j \in DOMAIN catchers :
        LET self == catchers[j]
            p == self.error_log_file
            after == fs'[p][0]
        IN  (self.log_to_file /\ history' # history) =>
                rolls'[p] - rolls[p] =
                    (IF FileBytes(fs[p][0]) + LineBytes(after[Len(after)]) >= self.max_bytes
                     THEN 1 ELSE 0)

\* C7: a rotating log sink with backup bound B rolls over exactly once per overflow, never
\* holds more than B backups, and after K rollovers holds exactly min(K, B) of them
C7_Rotation == [](BackupsBounded) /\ [][OneRolloverPerOverflow]_vars

\* more rollovers than backups allowed: the oldest backup was deleted
C7_Witness ==
    /\ catchers # <<>>
    /\ catchers[1].backup_count >= 1
    /\ rolls[ErrorLog] > catchers[1].backup_count + 1
    /\ Backups(fs[ErrorLog]) = 1 .. catchers[1].backup_count

(* C8 *)

\* C8: when a sampling step fails, the unit is still invoked, its result still returned,
\* and the call's row holds no resource fields
C8_SamplingFailureTolerated ==
    \A c \in Calls :
        SamplingFailed(c) =>
            /\ c.ran
            /\ c.unit.kind = "return" => c.outcome = Return(c.unit.value)
            /\ \A k \in DOMAIN SplitRows(csv.cells) :
                  LET row == SplitRows(csv.cells)[k]
                  IN  (IsDataRow(row) /\ RowUuid(row) = c.uuid) =>
                          row[5].val = None /\ row[6].val = None /\ row[7].val = None

(* C9 *)

\* C9: a unit that ends with a failure that is no Exception subclass (a cancellation, an
\* interrupt) gets an error entry with the function name and the uuid, and the failure is
\* raised again unchanged
C9_CancellationLogged ==
    \A c \in Calls :
        (UnitRaised(c) /\ ~IsException(c.unit.exc)) =>
            /\ c.outcome = Raise(c.unit.exc)
            /\ ConsoleErrors(c) # {} \/ \E p \in LogPaths : FileErrors(p, c) # {}

(* C10 *)

\* C10: a failing call through an instance leaves its error entry in the log file that
\* instance was constructed with, and on the console when that instance logs there,
\* whatever was constructed after it
C10_OwnDestinations ==
    \A c \in Calls :
        (UnitRaised(c) /\ IsException(c.unit.exc)) =>
            /\ LogsToFile(c) => FileErrors(LogFileOf(c), c) # {}
            /\ LogsToConsole(c) => ConsoleErrors(c) # {}

====
